---- MODULE Spec2Model ----
(***************************************************************************)
(* Model of ingest.py: the newline-delimited JSON loader (load_json_file,  *)
(* load_dir, load_all_data), the key audit (identify_missing_keys) and the *)
(* command-line entry point.                                               *)
(*                                                                         *)
(* A text line is a sequence of tokens; a file is a sequence of lines; a   *)
(* file name is a sequence of name parts (<<"a", ".jsonl">>); a record is  *)
(* the set of its keys (the values play no part in any operation).         *)
(***************************************************************************)
EXTENDS Integers, Sequences, FiniteSets, TLC

VARIABLES
    fs,            \* the environment: file system (and standard input)
    args,          \* the arguments of the call under way
    pc,            \* position of the call
    i,             \* loop index of load_all_data (1-based)
    loaded_data,   \* load_all_data's local mapping
    log,           \* the observable calls made so far, in order
    outcome,       \* [err |-> "running"], a raised error, or the value returned
    set_of_keys,   \* identify_missing_keys' first local
    missing_keys   \* identify_missing_keys' second local

vars == <<fs, args, pc, i, loaded_data, log, outcome, set_of_keys, missing_keys>>

----------------------------------------------------------------------------
(* Bounds of the model *)

MaxLineLen == 2
MaxLines == 2
MaxEntries == 3
MaxCap == 3
MaxWalkEntries == 2
MaxWalkCap == 1
MaxLangs == 2
MaxRecs == 1
MaxAnswerLen == 2

----------------------------------------------------------------------------
(* Values *)

Running == [err |-> "running"]
Ok(v) == [err |-> "none", value |-> v]
Err(e) == [err |-> e]

EmptyMap == [x \in {} |-> <<>>]
Put(m, k, v) == [x \in (DOMAIN m) \cup {k} |-> IF x = k THEN v ELSE m[x]]

NoCap == [kind |-> "None"]
IntCap(k) == [kind |-> "int", val |-> k]

\* Sequences over S of length at most n.
SeqsUpTo(S, n) == UNION {[1..m -> S] : m \in 0..n}

\* Sequences over S without repetition, of length at most n.
DistinctSeqsUpTo(S, n) ==
    {s \in SeqsUpTo(S, n) : \A a, b \in 1..Len(s) : a # b => s[a] # s[b]}

----------------------------------------------------------------------------
(* json.loads on one line of text *)

Whitespace == {" ", "\n"}
ValueTokens == {"A", "B"}
Tokens == {"A", "B", "x", " "}

\* The record a value token parses to: "A" is the text of an object with
\* the keys id and title, "B" of an object with the key title only.
ParsedValue(tok) == IF tok = "A" THEN {"id", "title"} ELSE {"title"}

RECURSIVE SkipWs(_, _)
SkipWs(s, idx) ==
    IF idx <= Len(s) /\ s[idx] \in Whitespace THEN SkipWs(s, idx + 1) ELSE idx

\* json.loads(line): whitespace, one value, whitespace, end of text.
JsonLoads(line) ==
    LET start == SkipWs(line, 1)
    IN  IF start > Len(line) \/ line[start] \notin ValueTokens
        THEN Err("JSONDecodeError")
        ELSE IF SkipWs(line, start + 1) <= Len(line)
             THEN Err("JSONDecodeError")
             ELSE Ok(ParsedValue(line[start]))

----------------------------------------------------------------------------
(* load_json_file *)

\* A faulty variant of ParseLines: a line that does not parse is skipped.
RECURSIVE ParseLines_SkipBad(_, _, _)
ParseLines_SkipBad(lines, k, acc) ==
    IF k > Len(lines) THEN Ok(acc)
    ELSE LET r == JsonLoads(lines[k])
         IN  IF r.err # "none" THEN ParseLines_SkipBad(lines, k + 1, acc)
             ELSE ParseLines_SkipBad(lines, k + 1, Append(acc, r.value))

RECURSIVE ParseLines(_, _, _)
ParseLines(lines, k, acc) ==
    IF k > Len(lines) THEN Ok(acc)
    ELSE LET r == JsonLoads(lines[k])
         IN  IF r.err # "none" THEN r
             ELSE ParseLines(lines, k + 1, Append(acc, r.value))

\* json_filename is "None", "" or "path"; file is what the path names.
LoadJsonFile(json_filename, file) ==
    IF json_filename = "None" THEN Err("TypeError")
    ELSE IF json_filename = "" \/ file.kind = "absent" THEN Err("FileNotFoundError")
    ELSE ParseLines(file.lines, 1, <<>>)

----------------------------------------------------------------------------
(* load_dir *)

EndsWith(fname, suffix) == Len(fname) > 0 /\ fname[Len(fname)] = suffix

\* The comprehension's condition for the entry at enumerate index k.
Selected(fname, k, n_files) ==
    EndsWith(fname, ".jsonl") /\ (n_files.kind = "None" \/ k < n_files.val)

RECURSIVE LoadEntries(_, _, _, _, _)
LoadEntries(files, listing, n_files, pos, acc) ==
    IF pos > Len(listing) THEN Ok(acc)
    ELSE LET fname == listing[pos]
         IN  IF Selected(fname, pos - 1, n_files)
             THEN LET r == LoadJsonFile("path", [kind |-> "file", lines |-> files[fname]])
                  IN  IF r.err # "none" THEN r
                      ELSE LoadEntries(files, listing, n_files, pos + 1,
                                       Put(acc, fname, r.value))
             ELSE LoadEntries(files, listing, n_files, pos + 1, acc)

\* dir is what data_dir names: [kind |-> "absent" | "file" | "dir", listing].
LoadDir(files, dir, n_files) ==
    IF dir.kind = "absent" THEN Err("FileNotFoundError")
    ELSE IF dir.kind = "file" THEN Err("NotADirectoryError")
    ELSE LoadEntries(files, dir.listing, n_files, 1, EmptyMap)

----------------------------------------------------------------------------
(* The inputs *)

Lines == {Append(s, "\n") : s \in SeqsUpTo(Tokens, MaxLineLen)}

LineA == <<"A", "\n">>
LineB == <<"B", "\n">>
LineBad == <<"x", "\n">>
LineBlank == <<"\n">>

NameA == <<"a", ".jsonl">>
NameB == <<"b", ".jsonl">>
NameC == <<"c", ".txt">>
NameD == <<"d", ".jsonl", ".gz">>

Absent == [kind |-> "absent"]
NotDir == [kind |-> "file"]
Dir(listing) == [kind |-> "dir", listing |-> listing]

Caps(n) == {NoCap} \cup {IntCap(k) : k \in 0..n}

----------------------------------------------------------------------------
(* Specification of load_json_file called on its own *)

InitFile ==
    /\ args \in {[json_filename |-> f] : f \in {"None", "", "path"}}
    /\ fs \in {[file |-> Absent]}
              \cup {[file |-> [kind |-> "file", lines |-> ls]] :
                      ls \in SeqsUpTo(Lines, MaxLines)}
    /\ (args.json_filename # "path" => fs.file = Absent)
    /\ pc = "file_call"
    /\ i = 0
    /\ loaded_data = EmptyMap
    /\ log = <<>>
    /\ outcome = Running
    /\ set_of_keys = {}
    /\ missing_keys = {}

CallLoadJsonFile ==
    /\ pc = "file_call"
    /\ outcome' = LoadJsonFile(args.json_filename, fs.file)
    /\ pc' = "file_done"
    /\ UNCHANGED <<fs, args, i, loaded_data, log, set_of_keys, missing_keys>>

NextFile == CallLoadJsonFile

SpecFile == InitFile /\ [][NextFile]_vars

----------------------------------------------------------------------------
(* Specification of load_dir called on its own *)

DirNames == {NameA, NameB, NameC, NameD}
DirBodies == {<<LineA>>, <<LineB, LineA>>, <<LineA, LineBad>>}

InitDir ==
    /\ args \in {[n_files |-> c] : c \in Caps(MaxCap)}
    /\ fs \in {[files |-> (NameA :> ba) @@ (NameB :> bb)
                          @@ (NameC :> <<LineBad>>) @@ (NameD :> <<LineBad>>),
                dir |-> d] :
                 ba \in DirBodies, bb \in DirBodies,
                 d \in {Absent, NotDir}
                       \cup {Dir(l) : l \in DistinctSeqsUpTo(DirNames, MaxEntries)}}
    /\ pc = "dir_call"
    /\ i = 0
    /\ loaded_data = EmptyMap
    /\ log = <<>>
    /\ outcome = Running
    /\ set_of_keys = {}
    /\ missing_keys = {}

CallLoadDir ==
    /\ pc = "dir_call"
    /\ outcome' = LoadDir(fs.files, fs.dir, args.n_files)
    /\ pc' = "dir_done"
    /\ UNCHANGED <<fs, args, i, loaded_data, log, set_of_keys, missing_keys>>

NextDir == CallLoadDir

SpecDir == InitDir /\ [][NextDir]_vars

----------------------------------------------------------------------------
(* load_all_data *)

Names == {"en", "fr"}

Falsy(x) == x.type = "NoneType" \/ Len(x.items) = 0

\* os.path.exists(data_dir) for the root argument.
RootExists == args.data_dir = "data" /\ fs.root = "exists"

\* A faulty variant of RootCheckFails: the existence of the root is not checked.
RootCheckFails_NoExists == args.data_dir \in {"None", ""}

RootCheckFails == args.data_dir \in {"None", ""} \/ ~RootExists

\* A faulty variant of ConfigCheckFails: the type of the option is not checked.
ConfigCheckFails_NoTypeCheck == Falsy(args.dir_lang_options)

ConfigCheckFails ==
    Falsy(args.dir_lang_options) \/ args.dir_lang_options.type # "list"

\* os.path.exists and os.path.isdir of the name's path under the root: a
\* path the file system does not hold is absent.
LangDirExists(lang_dir) ==
    lang_dir \in DOMAIN fs.dirs /\ fs.dirs[lang_dir].kind # "absent"
LangDirIsDir(lang_dir) ==
    lang_dir \in DOMAIN fs.dirs /\ fs.dirs[lang_dir].kind = "dir"

\* A faulty variant of WithEntry: only a name that is a directory gets its entry.
WithEntry_OnlyDirs(ld, lang_dir) ==
    IF LangDirIsDir(lang_dir) /\ lang_dir \notin DOMAIN ld
    THEN Put(ld, lang_dir, EmptyMap)
    ELSE ld

\* Line 103-104: the entry every name gets before its directory is checked.
WithEntry(ld, lang_dir) ==
    IF lang_dir \notin DOMAIN ld THEN Put(ld, lang_dir, EmptyMap) ELSE ld

\* Line 121: whether the name's directory is (re-)loaded.
NeedsLoad(ld, lang_dir) == Cardinality(DOMAIN ld[lang_dir]) = 0

WalkRootMissing ==
    /\ pc = "walk_start"
    /\ RootCheckFails
    /\ outcome' = Err("FileNotFoundError")
    /\ pc' = "walk_done"
    /\ UNCHANGED <<fs, args, i, loaded_data, log, set_of_keys, missing_keys>>

WalkBadConfig ==
    /\ pc = "walk_start"
    /\ ~RootCheckFails
    /\ ConfigCheckFails
    /\ outcome' = Err("ValueError")
    /\ pc' = "walk_done"
    /\ UNCHANGED <<fs, args, i, loaded_data, log, set_of_keys, missing_keys>>

WalkBegin ==
    /\ pc = "walk_start"
    /\ ~RootCheckFails
    /\ ~ConfigCheckFails
    /\ loaded_data' = EmptyMap
    /\ i' = 1
    /\ pc' = "walk_loop"
    /\ UNCHANGED <<fs, args, log, outcome, set_of_keys, missing_keys>>

\* One iteration for a name whose path is missing or is not a directory.
WalkSkip ==
    /\ pc = "walk_loop"
    /\ i <= Len(args.dir_lang_options.items)
    /\ LET lang_dir == args.dir_lang_options.items[i]
       IN  /\ ~(LangDirExists(lang_dir) /\ LangDirIsDir(lang_dir))
           /\ loaded_data' = WithEntry(loaded_data, lang_dir)
           /\ log' = Append(log, [op |-> "check", name |-> lang_dir])
    /\ i' = i + 1
    /\ UNCHANGED <<fs, args, pc, outcome, set_of_keys, missing_keys>>

\* One iteration for a name whose directory exists and is already loaded.
WalkLoaded ==
    /\ pc = "walk_loop"
    /\ i <= Len(args.dir_lang_options.items)
    /\ LET lang_dir == args.dir_lang_options.items[i]
           ld == WithEntry(loaded_data, lang_dir)
       IN  /\ LangDirExists(lang_dir) /\ LangDirIsDir(lang_dir)
           /\ ~NeedsLoad(ld, lang_dir)
           /\ loaded_data' = ld
           /\ log' = Append(log, [op |-> "check", name |-> lang_dir])
    /\ i' = i + 1
    /\ UNCHANGED <<fs, args, pc, outcome, set_of_keys, missing_keys>>

\* One iteration that calls load_dir, which returns.
WalkLoad ==
    /\ pc = "walk_loop"
    /\ i <= Len(args.dir_lang_options.items)
    /\ LET lang_dir == args.dir_lang_options.items[i]
           ld == WithEntry(loaded_data, lang_dir)
           r == LoadDir(fs.files, fs.dirs[lang_dir], args.n_files)
       IN  /\ LangDirExists(lang_dir) /\ LangDirIsDir(lang_dir)
           /\ NeedsLoad(ld, lang_dir)
           /\ r.err = "none"
           /\ loaded_data' = Put(ld, lang_dir, r.value)
           /\ log' = log \o <<[op |-> "check", name |-> lang_dir],
                              [op |-> "load_dir", name |-> lang_dir]>>
    /\ i' = i + 1
    /\ UNCHANGED <<fs, args, pc, outcome, set_of_keys, missing_keys>>

\* One iteration that calls load_dir, which raises: the error propagates.
WalkLoadFails ==
    /\ pc = "walk_loop"
    /\ i <= Len(args.dir_lang_options.items)
    /\ LET lang_dir == args.dir_lang_options.items[i]
           ld == WithEntry(loaded_data, lang_dir)
           r == LoadDir(fs.files, fs.dirs[lang_dir], args.n_files)
       IN  /\ LangDirExists(lang_dir) /\ LangDirIsDir(lang_dir)
           /\ NeedsLoad(ld, lang_dir)
           /\ r.err # "none"
           /\ loaded_data' = ld
           /\ outcome' = r
           /\ log' = log \o <<[op |-> "check", name |-> lang_dir],
                              [op |-> "load_dir", name |-> lang_dir]>>
    /\ pc' = "walk_done"
    /\ UNCHANGED <<fs, args, i, set_of_keys, missing_keys>>

WalkReturn ==
    /\ pc = "walk_loop"
    /\ i > Len(args.dir_lang_options.items)
    /\ outcome' = Ok(loaded_data)
    /\ pc' = "walk_done"
    /\ UNCHANGED <<fs, args, i, loaded_data, log, set_of_keys, missing_keys>>

NextWalk ==
    \/ WalkRootMissing
    \/ WalkBadConfig
    \/ WalkBegin
    \/ WalkSkip
    \/ WalkLoaded
    \/ WalkLoad
    \/ WalkLoadFails
    \/ WalkReturn

WalkNames == {NameA, NameB, NameC}
WalkBodies == {<<>>, <<LineB>>, <<LineA, LineBad>>, <<LineBad, LineA>>,
               <<LineA, LineBlank>>}

WalkDirs == {Absent, NotDir}
            \cup {Dir(l) : l \in DistinctSeqsUpTo(WalkNames, MaxWalkEntries)}

None == [type |-> "NoneType", items |-> <<>>]
Str(chars) == [type |-> "str", items |-> chars]
List(items) == [type |-> "list", items |-> items]
Tuple(items) == [type |-> "tuple", items |-> items]

LangOptions ==
    {None, Str(<<>>), Str(<<"e", "n">>), Tuple(<<"en", "fr">>)}
    \cup {List(l) : l \in SeqsUpTo(Names, MaxLangs)}

WalkFiles(bb) ==
    (NameA :> <<LineA, LineB>>) @@ (NameB :> bb) @@ (NameC :> <<LineBad>>)

InitWalk ==
    /\ args \in {[data_dir |-> d, dir_lang_options |-> o, n_files |-> c] :
                   d \in {"None", "", "data"}, o \in LangOptions,
                   c \in Caps(MaxWalkCap)}
    /\ fs \in {[root |-> "missing", dirs |-> [n \in Names |-> Absent],
                files |-> WalkFiles(<<LineB>>)]}
              \cup {[root |-> "exists", dirs |-> ds, files |-> WalkFiles(bb)] :
                      ds \in [Names -> WalkDirs], bb \in WalkBodies}
    /\ (args.data_dir # "data" => fs.root = "missing")
    /\ pc = "walk_start"
    /\ i = 0
    /\ loaded_data = EmptyMap
    /\ log = <<>>
    /\ outcome = Running
    /\ set_of_keys = {}
    /\ missing_keys = {}

SpecWalk == InitWalk /\ [][NextWalk]_vars

----------------------------------------------------------------------------
(* identify_missing_keys *)

\* A faulty variant of KeysStep: the set is overwritten instead of updated.
KeysStep_Overwrite(acc, entry) == entry

\* Line 154: set_of_keys.update(entry.keys()).
KeysStep(acc, entry) == acc \cup entry

\* A faulty variant of MissingOfEntry: the membership test is inverted.
MissingOfEntry_Inverted(all_keys, entry) == {key \in all_keys : key \in entry}

\* Line 161: the keys of the union that the entry lacks.
MissingOfEntry(all_keys, entry) == {key \in all_keys : key \notin entry}

RECURSIVE UnionEntries(_, _, _)
UnionEntries(entries, k, acc) ==
    IF k > Len(entries) THEN acc
    ELSE UnionEntries(entries, k + 1, KeysStep(acc, entries[k]))

RECURSIVE UnionFiles(_, _, _)
UnionFiles(by_file, todo, acc) ==
    IF todo = {} THEN acc
    ELSE LET filename == CHOOSE f \in todo : TRUE
         IN  UnionFiles(by_file, todo \ {filename},
                        UnionEntries(by_file[filename], 1, acc))

RECURSIVE UnionLangs(_, _, _)
UnionLangs(data, todo, acc) ==
    IF todo = {} THEN acc
    ELSE LET lang == CHOOSE l \in todo : TRUE
         IN  UnionLangs(data, todo \ {lang},
                        UnionFiles(data[lang], DOMAIN data[lang], acc))

RECURSIVE MissingEntries(_, _, _, _)
MissingEntries(entries, k, all_keys, acc) ==
    IF k > Len(entries) THEN acc
    ELSE MissingEntries(entries, k + 1, all_keys,
                        acc \cup MissingOfEntry(all_keys, entries[k]))

RECURSIVE MissingFiles(_, _, _, _)
MissingFiles(by_file, todo, all_keys, acc) ==
    IF todo = {} THEN acc
    ELSE LET filename == CHOOSE f \in todo : TRUE
         IN  MissingFiles(by_file, todo \ {filename}, all_keys,
                          MissingEntries(by_file[filename], 1, all_keys, acc))

RECURSIVE MissingLangs(_, _, _, _)
MissingLangs(data, todo, all_keys, acc) ==
    IF todo = {} THEN acc
    ELSE LET lang == CHOOSE l \in todo : TRUE
         IN  MissingLangs(data, todo \ {lang}, all_keys,
                          MissingFiles(data[lang], DOMAIN data[lang], all_keys, acc))

\* The first pass: lines 150-154.
AuditPass1 ==
    /\ pc = "audit_pass1"
    /\ set_of_keys' = UnionLangs(args.loaded_data, DOMAIN args.loaded_data, {})
    /\ pc' = "audit_pass2"
    /\ UNCHANGED <<fs, args, i, loaded_data, log, outcome, missing_keys>>

\* The second pass: lines 156-162.
AuditPass2 ==
    /\ pc = "audit_pass2"
    /\ missing_keys' = MissingLangs(args.loaded_data, DOMAIN args.loaded_data,
                                    set_of_keys, {})
    /\ pc' = "audit_return"
    /\ UNCHANGED <<fs, args, i, loaded_data, log, outcome, set_of_keys>>

AuditReturn ==
    /\ pc = "audit_return"
    /\ outcome' = Ok(<<set_of_keys, missing_keys>>)
    /\ pc' = "audit_done"
    /\ UNCHANGED <<fs, args, i, loaded_data, log, set_of_keys, missing_keys>>

NextAudit == AuditPass1 \/ AuditPass2 \/ AuditReturn

Keys == {"id", "title"}
Records == SUBSET Keys
AuditFiles == {NameA, NameB}

FileMaps == UNION {[F -> SeqsUpTo(Records, MaxRecs)] : F \in SUBSET AuditFiles}
Corpora == UNION {[L -> FileMaps] : L \in SUBSET Names}

InitAudit ==
    /\ args \in {[loaded_data |-> c] : c \in Corpora}
    /\ fs = [root |-> "exists"]
    /\ pc = "audit_pass1"
    /\ i = 0
    /\ loaded_data = EmptyMap
    /\ log = <<>>
    /\ outcome = Running
    /\ set_of_keys = {}
    /\ missing_keys = {}

SpecAudit == InitAudit /\ [][NextAudit]_vars

----------------------------------------------------------------------------
(* The entry point *)

MainDirs == {"enwiki_namespace_0", "frwiki_namespace_0"}

\* str.strip() and str.lower() on the characters of the answer.
RECURSIVE Strip(_)
Strip(chars) ==
    IF Len(chars) > 0 /\ chars[1] \in Whitespace THEN Strip(Tail(chars))
    ELSE IF Len(chars) > 0 /\ chars[Len(chars)] \in Whitespace
         THEN Strip(SubSeq(chars, 1, Len(chars) - 1))
         ELSE chars

LowerChar(c) == IF c = "Y" THEN "y" ELSE IF c = "N" THEN "n" ELSE c
Lower(chars) == [k \in 1..Len(chars) |-> LowerChar(chars[k])]

\* Lines 181-182: whether some expected directory name exists, as a path
\* relative to the working directory.
DataExists == TRUE \in {fs.cwd[d] : d \in MainDirs}

\* Line 186: the answer read from standard input.
AnswerIsYes == Lower(Strip(fs.stdin)) = <<"y">>

\* Lines 177-179, the root is missing: it is created.
MainMakeRoot ==
    /\ pc = "main_start"
    /\ fs.root = "missing"
    /\ fs' = [fs EXCEPT !.root = "exists"]
    /\ log' = Append(log, [op |-> "makedirs", name |-> "data"])
    /\ pc' = "main_check"
    /\ UNCHANGED <<args, i, loaded_data, outcome, set_of_keys, missing_keys>>

MainRootPresent ==
    /\ pc = "main_start"
    /\ fs.root = "exists"
    /\ pc' = "main_check"
    /\ UNCHANGED <<fs, args, i, loaded_data, log, outcome, set_of_keys, missing_keys>>

\* Lines 184-185.
MainNoPrompt ==
    /\ pc = "main_check"
    /\ ~DataExists
    /\ log' = Append(log, [op |-> "print", name |-> "Data already exists, skipping download."])
    /\ pc' = "main_load"
    /\ UNCHANGED <<fs, args, i, loaded_data, outcome, set_of_keys, missing_keys>>

\* Line 186, the answer is y: download_kaggle_dataset is called.
MainPromptYes ==
    /\ pc = "main_check"
    /\ DataExists
    /\ AnswerIsYes
    /\ log' = log \o <<[op |-> "input", name |-> "Should we start the download [y/n]: "],
                       [op |-> "download_kaggle_dataset", name |-> "data"]>>
    /\ pc' = "main_download"
    /\ UNCHANGED <<fs, args, i, loaded_data, outcome, set_of_keys, missing_keys>>

\* Line 186, any other answer.
MainPromptNo ==
    /\ pc = "main_check"
    /\ DataExists
    /\ ~AnswerIsYes
    /\ log' = Append(log, [op |-> "input", name |-> "Should we start the download [y/n]: "])
    /\ pc' = "main_load"
    /\ UNCHANGED <<fs, args, i, loaded_data, outcome, set_of_keys, missing_keys>>

\* What the archive may unpack to under the root.
Unpacked == {[d \in MainDirs |-> Dir(<<NameA, NameB>>)],
             [d \in MainDirs |-> Dir(<<NameC, NameA>>)]}

\* Lines 32-40: the remote call returns, the archive is unpacked.
MainDownloadOk ==
    /\ pc = "main_download"
    /\ \E ds \in Unpacked : fs' = [fs EXCEPT !.dirs = ds]
    /\ pc' = "main_load"
    /\ UNCHANGED <<args, i, loaded_data, log, outcome, set_of_keys, missing_keys>>

\* Line 36: the remote call raises; the error propagates.
MainDownloadFails ==
    /\ pc = "main_download"
    /\ outcome' = Err("DownloadError")
    /\ pc' = "main_failed"
    /\ UNCHANGED <<fs, args, i, loaded_data, log, set_of_keys, missing_keys>>

\* Lines 190-195: the call of load_all_data with the hardcoded configuration.
MainLoad ==
    /\ pc = "main_load"
    /\ args' = [data_dir |-> "data",
                dir_lang_options |-> [type |-> "list",
                                      items |-> <<"enwiki_namespace_0",
                                                  "frwiki_namespace_0">>],
                n_files |-> IntCap(1)]
    /\ pc' = "walk_start"
    /\ UNCHANGED <<fs, i, loaded_data, log, outcome, set_of_keys, missing_keys>>

\* Line 198: the call of identify_missing_keys on what load_all_data returned.
MainAudit ==
    /\ pc = "walk_done"
    /\ outcome.err = "none"
    /\ args' = [loaded_data |-> outcome.value]
    /\ outcome' = Running
    /\ pc' = "audit_pass1"
    /\ UNCHANGED <<fs, i, loaded_data, log, set_of_keys, missing_keys>>

NextMain ==
    \/ MainMakeRoot
    \/ MainRootPresent
    \/ MainNoPrompt
    \/ MainPromptYes
    \/ MainPromptNo
    \/ MainDownloadOk
    \/ MainDownloadFails
    \/ MainLoad
    \/ WalkBegin
    \/ WalkSkip
    \/ WalkLoad
    \/ WalkLoadFails
    \/ WalkReturn
    \/ MainAudit
    \/ AuditPass1
    \/ AuditPass2
    \/ AuditReturn

AnswerChars == {"y", "Y", "n", " "}
MainDirStates == {Absent, NotDir, Dir(<<>>), Dir(<<NameC, NameA>>), Dir(<<NameB, NameA>>)}

InitMain ==
    /\ fs \in {[root |-> "missing", dirs |-> [d \in MainDirs |-> Absent],
                files |-> WalkFiles(bb), cwd |-> c, stdin |-> a] :
                 bb \in {<<LineB>>, <<LineA, LineBad>>},
                 c \in [MainDirs -> BOOLEAN],
                 a \in SeqsUpTo(AnswerChars, MaxAnswerLen)}
              \cup {[root |-> "exists", dirs |-> ds,
                     files |-> WalkFiles(bb), cwd |-> c, stdin |-> a] :
                      ds \in [MainDirs -> MainDirStates],
                      bb \in {<<LineB>>, <<LineA, LineBad>>},
                      c \in [MainDirs -> BOOLEAN],
                      a \in SeqsUpTo(AnswerChars, MaxAnswerLen)}
    /\ args = [argv |-> <<>>]
    /\ pc = "main_start"
    /\ i = 0
    /\ loaded_data = EmptyMap
    /\ log = <<>>
    /\ outcome = Running
    /\ set_of_keys = {}
    /\ missing_keys = {}

SpecMain == InitMain /\ [][NextMain]_vars

----------------------------------------------------------------------------
(* Claims about load_json_file (SpecFile) *)

\* The line without its whitespace.
Stripped(line) == SelectSeq(line, LAMBDA t : t \notin Whitespace)

\* A line that is one JSON value, possibly surrounded by whitespace.
ValidJsonLine(line) ==
    /\ Len(Stripped(line)) = 1
    /\ Stripped(line)[1] \in ValueTokens
    /\ \E k \in 1..Len(line) : line[k] \in ValueTokens

\* An empty line: nothing but its line end.
BlankLine(line) == line = <<"\n">>

NonBlankLines(lines) == SelectSeq(lines, LAMBDA l : ~BlankLine(l))

\* C10: for a file whose non-empty lines are all valid JSON, load_json_file
\* returns one record per non-empty line, in file order; blank lines add no
\* record and are no failure.
C10_BlankLinesSkipped ==
    (/\ pc = "file_done"
     /\ args.json_filename = "path"
     /\ fs.file.kind = "file"
     /\ \A k \in 1..Len(fs.file.lines) :
           BlankLine(fs.file.lines[k]) \/ ValidJsonLine(fs.file.lines[k]))
    => /\ outcome.err = "none"
       /\ Len(outcome.value) = Len(NonBlankLines(fs.file.lines))
       /\ \A k \in 1..Len(outcome.value) :
             outcome.value[k] = ParsedValue(Stripped(NonBlankLines(fs.file.lines)[k])[1])

----------------------------------------------------------------------------
(* Claims about load_dir (SpecDir) *)

JsonlPositions(listing) == {p \in 1..Len(listing) : EndsWith(listing[p], ".jsonl")}

AllLinesValid(body) == \A k \in 1..Len(body) : ValidJsonLine(body[k])

\* C1: for a listing with N entries ending in ".jsonl", all of them valid,
\* and a cap k with 0 <= k <= N, load_dir returns a mapping with exactly k
\* entries.
C1_CapCountsJsonlFiles ==
    (/\ pc = "dir_done"
     /\ fs.dir.kind = "dir"
     /\ args.n_files.kind = "int"
     /\ args.n_files.val <= Cardinality(JsonlPositions(fs.dir.listing))
     /\ \A p \in JsonlPositions(fs.dir.listing) :
           AllLinesValid(fs.files[fs.dir.listing[p]]))
    => /\ outcome.err = "none"
       /\ Cardinality(DOMAIN outcome.value) = args.n_files.val

----------------------------------------------------------------------------
(* Claims about load_all_data (SpecWalk) *)

Items == args.dir_lang_options.items

LoadDirCalls(name) ==
    Cardinality({k \in 1..Len(log) : log[k] = [op |-> "load_dir", name |-> name]})

\* The root argument names a directory that exists.
RootPresent == args.data_dir = "data" /\ fs.root = "exists"

\* The option is a non-empty list of names.
IsNameList ==
    args.dir_lang_options.type = "list" /\ Len(args.dir_lang_options.items) > 0

\* The walk gets past both argument checks.
WalkRuns == RootPresent /\ IsNameList

\* Some file that the walk selects for loading holds a line that is not
\* valid JSON.
BadLineSelected ==
    /\ WalkRuns
    /\ \E k \in 1..Len(Items) :
          /\ LangDirIsDir(Items[k])
          /\ \E p \in 1..Len(fs.dirs[Items[k]].listing) :
                LET fname == fs.dirs[Items[k]].listing[p]
                IN  /\ Selected(fname, p - 1, args.n_files)
                    /\ ~AllLinesValid(fs.files[fname])

\* C4: if a line of a file selected for loading is not valid JSON, the load
\* ends in a parse error; no corpus is returned.
C4_BadLineFailsLoad ==
    BadLineSelected
    => /\ outcome.err \in {"running", "JSONDecodeError"}
       /\ (pc = "walk_done" => outcome = Err("JSONDecodeError"))

C4_Witness ==
    /\ BadLineSelected
    /\ pc = "walk_done"
    /\ outcome = Err("JSONDecodeError")
    /\ \E n \in DOMAIN loaded_data : DOMAIN loaded_data[n] # {}

\* C5: when the root directory does not exist, or data_dir is empty or
\* None, load_all_data ends in FileNotFoundError whatever the other
\* arguments are, and no subdirectory is checked or loaded.
C5_MissingRootNotFound ==
    ~RootPresent
    => /\ log = <<>>
       /\ outcome.err \in {"running", "FileNotFoundError"}
       /\ (pc = "walk_done" => outcome = Err("FileNotFoundError"))

C5_Witness ==
    /\ pc = "walk_done"
    /\ args.data_dir = "data"
    /\ fs.root = "missing"
    /\ args.dir_lang_options = List(<<"en", "fr">>)
    /\ outcome = Err("FileNotFoundError")

\* C6: when the root exists and dir_lang_options is a single string or None,
\* load_all_data ends in ValueError, before any subdirectory is checked or
\* loaded.
C6_NonSequenceConfigError ==
    (RootPresent /\ args.dir_lang_options.type \in {"str", "NoneType"})
    => /\ log = <<>>
       /\ outcome.err \in {"running", "ValueError"}
       /\ (pc = "walk_done" => outcome = Err("ValueError"))

C6_Witness ==
    /\ pc = "walk_done"
    /\ RootPresent
    /\ args.dir_lang_options = Str(<<"e", "n">>)
    /\ \E n \in Names : LangDirIsDir(n)
    /\ outcome = Err("ValueError")

\* C8: load_dir is called at most once per name, and exactly once for every
\* name of the list that is a directory when the walk returns.
C8_LoadDirOncePerName ==
    /\ \A n \in Names : LoadDirCalls(n) <= 1
    /\ (outcome.err = "none" =>
          \A k \in 1..Len(Items) :
             LangDirIsDir(Items[k]) => LoadDirCalls(Items[k]) = 1)

\* C9: a name whose path is missing or not a directory does not fail the
\* walk; the mapping returned has one key per distinct name, with an empty
\* mapping for such a name.
C9_MissingNameGetsEmptyEntry ==
    WalkRuns
    => /\ \A k \in 1..Len(Items) :
             (k < i /\ ~LangDirIsDir(Items[k]))
             => /\ Items[k] \in DOMAIN loaded_data
                /\ loaded_data[Items[k]] = EmptyMap
       /\ (outcome.err = "none" =>
             /\ DOMAIN outcome.value = {Items[k] : k \in 1..Len(Items)}
             /\ \A k \in 1..Len(Items) :
                   ~LangDirIsDir(Items[k]) => outcome.value[Items[k]] = EmptyMap)
       /\ (outcome.err \notin {"running", "none"} => LangDirIsDir(Items[i]))

C9_Witness ==
    /\ WalkRuns
    /\ outcome.err = "none"
    /\ Len(Items) = 2
    /\ ~LangDirIsDir(Items[1])
    /\ LangDirIsDir(Items[2])
    /\ DOMAIN outcome.value[Items[2]] # {}
    /\ outcome.value[Items[1]] = EmptyMap

----------------------------------------------------------------------------
(* Claims about identify_missing_keys (SpecAudit) *)

\* The place of every record of the corpus.
Places(data) ==
    {<<l, f, k>> \in (DOMAIN data) \X AuditFiles \X (1..(MaxRecs + 1)) :
        f \in DOMAIN data[l] /\ k <= Len(data[l][f])}

RecordAt(data, place) == data[place[1]][place[2]][place[3]]

AllKeysOf(data) == UNION {RecordAt(data, pl) : pl \in Places(data)}

SameKeySet(data) ==
    \A p1, p2 \in Places(data) : RecordAt(data, p1) = RecordAt(data, p2)

\* C3: when every record has the same key set S, missing_keys is empty and
\* all_keys is S; with no record at all both sets are empty.
C3_UniformCorpus ==
    (pc = "audit_done" /\ SameKeySet(args.loaded_data))
    => /\ outcome.value[2] = {}
       /\ \A pl \in Places(args.loaded_data) :
             outcome.value[1] = RecordAt(args.loaded_data, pl)
       /\ (Places(args.loaded_data) = {} => outcome.value[1] = {})

C3_Witness ==
    /\ pc = "audit_done"
    /\ SameKeySet(args.loaded_data)
    /\ Cardinality(Places(args.loaded_data)) >= 3
    /\ outcome.value = <<Keys, {}>>

----------------------------------------------------------------------------
(* Claims about the entry point (SpecMain) *)

\* None of the expected language directories exists under the data root.
DirsAbsent == \A d \in MainDirs : fs.dirs[d].kind = "absent"

Prompted == \E k \in 1..Len(log) : log[k].op = "input"
DownloadCalled == \E k \in 1..Len(log) : log[k].op = "download_kaggle_dataset"

\* C7: download_kaggle_dataset is called exactly when the expected
\* directories are absent and the answer to the question is y, and the
\* question is asked whenever they are absent.
C7_PromptWhenAbsent ==
    /\ pc = "main_download" => (DirsAbsent /\ Prompted /\ AnswerIsYes)
    /\ (pc = "main_load" /\ ~DownloadCalled)
       => (~(DirsAbsent /\ AnswerIsYes) /\ (DirsAbsent => Prompted))

====
